---- MODULE Spec2Model ----
(***************************************************************************)
(* The vision-grounded action loop of the three demo scripts:              *)
(*   amazon_shopping/demo2_vision_llm/main.py   (demo "amazon")            *)
(*   google_search/demo2_vision/main.py         (demo "gvision")           *)
(*   google_search/demo1_sdk/main.py            (demo "gsdk")              *)
(* and the locator amazon_shopping/demo2_vision_llm/vision_agent.py.       *)
(*                                                                         *)
(* Each script is a straight-line program; pc is its position.  The        *)
(* browser (page URL, reaction to clicks), the model provider (response    *)
(* content, usage, transport failure) and the snapshot API are the         *)
(* environment and are chosen nondeterministically from small sets.        *)
(***************************************************************************)
EXTENDS Integers, Sequences, FiniteSets, TLC

\* Bounds of the model.
MaxCoord == 2      \* model-supplied coordinates are drawn from 1..MaxCoord
MaxUrl == 1        \* page URLs are drawn from 0..MaxUrl
MaxElems == 1      \* a snapshot holds at most MaxElems elements
MaxTokens == 1     \* ledger runs: token counts are drawn from 0..MaxTokens
MaxRecords == 3    \* ledger runs: at most MaxRecords records are appended

(***************************************************************************)
(* JSON / Python values.  A scalar is [t, n]; t is the JSON type ("absent" *)
(* stands for a key that is not in its dict), n the number, or the length  *)
(* of a string or list, or 0/1 for a boolean.                              *)
(***************************************************************************)
Absent == [t |-> "absent", n |-> 0]
Null == [t |-> "null", n |-> 0]
Num(k) == [t |-> "num", n |-> k]
Str(k) == [t |-> "str", n |-> k]
Bool(b) == [t |-> "bool", n |-> IF b THEN 1 ELSE 0]
List(k) == [t |-> "list", n |-> k]

\* The value of a "coordinates" or "bbox" key: an object with the keys
\* x, y, width, height (each possibly absent), or a non-object value.
Target(x, y, w, h) == [t |-> "obj", n |-> 0, x |-> x, y |-> y, width |-> w, height |-> h]
NonObject(s) == [t |-> s.t, n |-> s.n, x |-> Absent, y |-> Absent, width |-> Absent, height |-> Absent]
EmptyDict == Target(Absent, Absent, Absent, Absent)
NoneTarget == NonObject(Null)

\* The value returned by the locator: a dict with the keys the scripts read,
\* or a non-dict top-level JSON value (t # "obj").
Decision(err, coords, bbox, success, conf) ==
    [t |-> "obj", error |-> err, coordinates |-> coords, bbox |-> bbox,
     success |-> success, confirmation_elements |-> conf]
TopLevel(s) ==
    [t |-> s, error |-> Absent, coordinates |-> NonObject(Absent), bbox |-> NonObject(Absent),
     success |-> Absent, confirmation_elements |-> Absent]
Unset == TopLevel("unset")

\* Python truthiness (bool(v)) of a scalar or target value.
Truthy(v) ==
    CASE v.t \in {"absent", "null"} -> FALSE
      [] v.t = "obj" -> \E k \in {"x", "y", "width", "height"} : v[k].t # "absent"
      [] OTHER -> v.n # 0

\* `v is None`
IsNone(v) == v.t \in {"absent", "null"}

\* dict.get(key): None when the key is absent.
Get(d, key) == IF d[key].t = "absent" THEN [d[key] EXCEPT !.t = "null"] ELSE d[key]

\* dict.get(key, default)
GetDefault(d, key, default) == IF d[key].t = "absent" THEN default ELSE d[key]

\* isinstance(v, dict); also: v has a .get method.
IsDict(v) == v.t = "obj"


\* isinstance(v, (int, float)) for a JSON value that is not a boolean: the
\* only values the pointer driver accepts as a coordinate.
IsNumber(v) == v.t = "num"

(***************************************************************************)
(* The model provider.  A response carries a content (None, or a text) and *)
(* usage counts; a text is valid JSON denoting the value doc, or is not    *)
(* JSON at all.                                                            *)
(***************************************************************************)
CoordScalars == {Absent, Null, Str(1), Bool(TRUE)} \cup {Num(k) : k \in 1..MaxCoord}

CoordValues ==
    {NonObject(Absent), NonObject(Null), NonObject(Str(1)), NonObject(Num(0))}
    \cup {Target(a, b, Absent, Absent) : a \in CoordScalars, b \in CoordScalars}

\* JSON documents a model can answer a point-target instruction with: the
\* keys are the model's to choose, an "error" key beside coordinates included.
ClickDocs ==
    {TopLevel("list"),
     Decision(Str(1), Target(Num(1), Num(1), Absent, Absent), NonObject(Absent), Absent, Absent)}
    \cup {Decision(Absent, c, NonObject(Absent), Absent, Absent) : c \in CoordValues}

\* JSON documents a model can answer the verification instruction with.
VerifyDocs ==
    {TopLevel("list")}
    \cup {Decision(Absent, NonObject(Absent), NonObject(Absent), s, c) :
            s \in {Absent, Bool(TRUE), Bool(FALSE)}, c \in {Absent, Null, List(1)}}

NoContent == [present |-> FALSE, valid |-> FALSE, doc |-> Unset]
JsonText(d) == [present |-> TRUE, valid |-> TRUE, doc |-> d]
Garbage == [present |-> TRUE, valid |-> FALSE, doc |-> Unset]

\* The usage a response reports is fixed by the request and the content:
\* prompt_tokens by the size of the observation sent (one image, or the
\* element list), completion_tokens by the content generated (a refusal or
\* empty answer, a text that is not JSON, a JSON document).
PromptTokens(observation_size) == 1 + observation_size

CompletionTokens(content) ==
    IF ~content.present THEN 1 ELSE IF ~content.valid THEN 2 ELSE 3

UsageFor(observation_size, content) ==
    [prompt_tokens |-> PromptTokens(observation_size),
     completion_tokens |-> CompletionTokens(content)]

NoUsage == [prompt_tokens |-> 0, completion_tokens |-> 0]

\* What client.chat.completions.create can do: raise, or return a response.
ProviderOutcomes(docs, observation_size) ==
    {[raises |-> TRUE, content |-> NoContent, refusal |-> FALSE, usage |-> NoUsage]}
    \cup {[raises |-> FALSE, content |-> NoContent, refusal |-> r,
           usage |-> UsageFor(observation_size, NoContent)] : r \in BOOLEAN}
    \cup {[raises |-> FALSE, content |-> c, refusal |-> FALSE,
           usage |-> UsageFor(observation_size, c)] :
            c \in {Garbage} \cup {JsonText(d) : d \in docs}}

NoResponse == [raises |-> FALSE, content |-> NoContent, refusal |-> FALSE, usage |-> NoUsage]

\* json.loads: the value of a valid text, JSONDecodeError otherwise.
JsonLoads(text) ==
    IF text.valid THEN [ok |-> TRUE, value |-> text.doc] ELSE [ok |-> FALSE, value |-> Unset]

\* The dict analyze_screenshot returns for an empty response (error text 1,
\* or 2 when a refusal is appended) and for a JSON parse error (error text 3).
ErrorResult(msg) == Decision(Str(msg), NoneTarget, NonObject(Absent), Absent, Absent)

\* A tracker that keeps one record per scene name: a call for a scene that
\* already has a record replaces it.
log_interaction_KeyedByScene(led, scene_name, prompt_tokens, completion_tokens) ==
    LET rec == [scene |-> scene_name, prompt_tokens |-> prompt_tokens,
                completion_tokens |-> completion_tokens]
        held == {i \in DOMAIN led : led[i].scene = scene_name}
    IN  IF held = {} THEN Append(led, rec)
        ELSE [led EXCEPT ![CHOOSE i \in held : TRUE] = rec]

\* TokenTracker.log_interaction: one record appended to the ledger.
log_interaction(led, scene_name, prompt_tokens, completion_tokens) ==
    Append(led, [scene |-> scene_name, prompt_tokens |-> prompt_tokens,
                 completion_tokens |-> completion_tokens])

\* Sum of one field over the records, in append order.
RECURSIVE SumTokens(_, _)
SumTokens(led, field) ==
    IF led = <<>> THEN 0
    ELSE SumTokens(SubSeq(led, 1, Len(led) - 1), field) + led[Len(led)][field]

\* The records of one scene name.
RecordsOf(led, scene_name) ==
    LET Named(r) == r.scene = scene_name
    IN  SelectSeq(led, Named)

\* A summary in which a later record of a scene replaces the earlier one and
\* the total is taken over what is left.
get_summary_Overwrite(led) ==
    LET names == {led[i].scene : i \in DOMAIN led}
        LastOf(n) == RecordsOf(led, n)[Len(RecordsOf(led, n))]
        RECURSIVE Kept(_, _)
        Kept(ns, field) ==
            IF ns = {} THEN 0
            ELSE LET n == CHOOSE m \in ns : TRUE
                 IN  LastOf(n)[field] + Kept(ns \ {n}, field)
    IN  [scenes |-> [n \in names |->
                        [prompt_tokens |-> LastOf(n).prompt_tokens,
                         completion_tokens |-> LastOf(n).completion_tokens]],
         total_prompt_tokens |-> Kept(names, "prompt_tokens"),
         total_completion_tokens |-> Kept(names, "completion_tokens"),
         total_tokens |-> Kept(names, "prompt_tokens") + Kept(names, "completion_tokens")]

\* TokenTracker.get_summary: per scene name the input and output tokens, and
\* the grand total.
get_summary(led) ==
    [scenes |-> [n \in {led[i].scene : i \in DOMAIN led} |->
                    [prompt_tokens |-> SumTokens(RecordsOf(led, n), "prompt_tokens"),
                     completion_tokens |-> SumTokens(RecordsOf(led, n), "completion_tokens")]],
     total_prompt_tokens |-> SumTokens(led, "prompt_tokens"),
     total_completion_tokens |-> SumTokens(led, "completion_tokens"),
     total_tokens |-> SumTokens(led, "prompt_tokens") + SumTokens(led, "completion_tokens")]

\* A locator that records usage only for a content it could parse.
analyze_screenshot_LogAfterParse(provider, scene_name, led) ==
    IF provider.raises
    THEN [raised |-> TRUE, result |-> Unset, ledger |-> led]
    ELSE IF ~provider.content.present
    THEN [raised |-> FALSE, result |-> ErrorResult(IF provider.refusal THEN 2 ELSE 1), ledger |-> led]
    ELSE IF ~JsonLoads(provider.content).ok
    THEN [raised |-> FALSE, result |-> ErrorResult(3), ledger |-> led]
    ELSE [raised |-> FALSE, result |-> JsonLoads(provider.content).value,
          ledger |-> log_interaction(led, scene_name, provider.usage.prompt_tokens,
                                     provider.usage.completion_tokens)]

\* VisionAgent.analyze_screenshot, for one outcome of its provider request:
\* raised = the exception of the request leaves the function.
analyze_screenshot(provider, scene_name, led) ==
    IF provider.raises
    THEN [raised |-> TRUE, result |-> Unset, ledger |-> led]
    ELSE LET logged == log_interaction(led, scene_name, provider.usage.prompt_tokens,
                                       provider.usage.completion_tokens)
             message_content == provider.content
         IN  IF ~message_content.present
             THEN [raised |-> FALSE, result |-> ErrorResult(IF provider.refusal THEN 2 ELSE 1),
                   ledger |-> logged]
             ELSE LET parsed == JsonLoads(message_content)
                  IN  IF parsed.ok
                      THEN [raised |-> FALSE, result |-> parsed.value, ledger |-> logged]
                      ELSE [raised |-> FALSE, result |-> ErrorResult(3), ledger |-> logged]

(***************************************************************************)
(* Coordinate extraction and validation of the scripts.                    *)
(***************************************************************************)
\* A Python exception of the extraction itself (AttributeError).
ExtractFault == [fault |-> TRUE, x |-> Null, y |-> Null]

\* Amazon Scene 1: coords = result.get('coordinates', {}); coords.get('x').
ExtractScene1(res) ==
    IF ~IsDict(res) THEN ExtractFault
    ELSE LET coords == GetDefault(res, "coordinates", EmptyDict)
         IN  IF ~IsDict(coords) THEN ExtractFault
             ELSE [fault |-> FALSE, x |-> Get(coords, "x"), y |-> Get(coords, "y")]

\* An extraction that hands back the two coordinates in each other's place.
ExtractGuarded_Swapped(res) ==
    IF ~IsDict(res) THEN ExtractFault
    ELSE LET c == Get(res, "coordinates")
             coords == IF Truthy(c) THEN c ELSE EmptyDict
         IN  [fault |-> FALSE,
              x |-> IF IsDict(coords) THEN Get(coords, "y") ELSE Null,
              y |-> IF IsDict(coords) THEN Get(coords, "x") ELSE Null]

\* The other point-target scenes: coords = result.get('coordinates') or {};
\* x = coords.get('x') if isinstance(coords, dict) else None.
ExtractGuarded(res) ==
    IF ~IsDict(res) THEN ExtractFault
    ELSE LET c == Get(res, "coordinates")
             coords == IF Truthy(c) THEN c ELSE EmptyDict
         IN  [fault |-> FALSE,
              x |-> IF IsDict(coords) THEN Get(coords, "x") ELSE Null,
              y |-> IF IsDict(coords) THEN Get(coords, "y") ELSE Null]

\* `if x is None or y is None:` the decision is rejected.
Rejected(px, py) == IsNone(px) \/ IsNone(py)

\* A comparison that reads an unchanged URL as a confirmation.
Judge_Inverted(before, after) == IF before = after THEN "Confirmed" ELSE "Unconfirmed"

\* `if url_before == url_after:` after the settle delay.
Judge(before, after) == IF before = after THEN "Unconfirmed" ELSE "Confirmed"


(***************************************************************************)
(* Snapshots of the structural mode.  A string is a tuple of characters;   *)
(* the character "middot" stands for the one-character string U+00B7.      *)
(***************************************************************************)
\* str.lower() on the characters the sample texts use.
LowerChar(c) == CASE c = "A" -> "a" [] c = "J" -> "j" [] c = "S" -> "s" [] OTHER -> c

Lower(str) == [i \in 1..Len(str) |-> LowerChar(str[i])]

\* `sub in str`
Contains(sub, str) ==
    \E i \in 0..(Len(str) - Len(sub)) : \A j \in 1..Len(sub) : str[i + j] = sub[j]

\* ['ad', 'sponsored', U+00B7]
AdMarkers == {<<"a", "d">>, <<"s", "p", "o", "n", "s", "o", "r", "e", "d">>, <<"middot">>}

TextAbsent == [t |-> "absent", s |-> <<>>]
TextNull == [t |-> "null", s |-> <<>>]
Text(str) == [t |-> "str", s |-> str]

\* Element texts of the snapshots a run sees: an organic title, an ad label.
SampleTexts == {<<"J", "a", "p", "a", "n">>, <<"A", "d">>}

\* "link" is excluded in Scene 1 only, "searchbox" in Scene 3 only.
Roles == {"link", "searchbox"}

Elements ==
    {[role |-> r, text |-> t] :
        r \in Roles, t \in {TextAbsent, TextNull} \cup {Text(str) : str \in SampleTexts}}

ElementLists == UNION {[1..n -> Elements] : n \in 0..MaxElems}

\* snap.model_dump() on a page: the element list, and the page's URL for
\* the other top-level fields.
Snapshots(page_url) == {[elements |-> es, url |-> page_url] : es \in ElementLists}
NoSnapshot == [elements |-> <<>>, url |-> 0]

\* A filter that builds its result from the kept elements alone, without the
\* other top-level fields of the snapshot.
filter_elements_ElementsOnly(snapshot, exclude_roles) ==
    LET Keep(elem) == elem.role \notin exclude_roles
    IN  [elements |-> SelectSeq(snapshot.elements, Keep), url |-> 0]

\* filter_elements(snapshot_data, exclude_roles)
filter_elements(snapshot, exclude_roles) ==
    LET Keep(elem) == elem.role \notin exclude_roles
    IN  [snapshot EXCEPT !.elements = SelectSeq(snapshot.elements, Keep)]

\* elem.get('text', '').lower() raises AttributeError when text is None.
AdFilterFaults(elements) == \E i \in 1..Len(elements) : elements[i].text.t = "null"

\* The ad filter of Scene 3, for a list on which it does not raise.
IsAd(elem) ==
    LET text == IF elem.text.t = "absent" THEN <<>> ELSE elem.text.s
    IN  \E ad_marker \in AdMarkers : Contains(ad_marker, Lower(text))

FilterAds(elements) ==
    LET Keep(elem) == ~IsAd(elem)
    IN  SelectSeq(elements, Keep)

(***************************************************************************)
(* The box-target locator and validation of the SDK script.                *)
(***************************************************************************)
BoxSides == {Absent, Num(1)}

BboxValues ==
    {NonObject(Absent), NonObject(Null), NonObject(Str(1))}
    \cup {Target(a, b, w, h) : a \in CoordScalars, b \in CoordScalars, w \in BoxSides, h \in BoxSides}

\* JSON documents a model can answer a box-target instruction with.
BoxDocs ==
    {TopLevel("list")}
    \cup {Decision(Absent, NonObject(Absent), b, Absent, Absent) : b \in BboxValues}

\* LLMAgent.analyze_snapshot: a transport failure and a response that does not
\* parse as the schema are returned as an error result; one usage record per
\* call.
analyze_snapshot(provider, scene_name, led) ==
    LET logged == log_interaction(led, scene_name, provider.usage.prompt_tokens,
                                  provider.usage.completion_tokens)
    IN  IF provider.raises THEN [result |-> ErrorResult(4), ledger |-> logged]
        ELSE IF ~provider.content.present
        THEN [result |-> ErrorResult(IF provider.refusal THEN 2 ELSE 1), ledger |-> logged]
        ELSE LET parsed == JsonLoads(provider.content)
             IN  IF parsed.ok /\ IsDict(parsed.value)
                 THEN [result |-> parsed.value, ledger |-> logged]
                 ELSE [result |-> ErrorResult(3), ledger |-> logged]

\* `if not result.get('bbox') or result['bbox'].get('x') is None:`
ValidateBbox(res) ==
    LET bbox == Get(res, "bbox")
    IN  IF ~Truthy(bbox) THEN "reject"
        ELSE IF ~IsDict(bbox) THEN "fault"
        ELSE IF IsNone(Get(bbox, "x")) THEN "reject"
        ELSE "accept"

\* A box click_rect can turn into a pointer target: four numbers.
WellFormedBox(bbox) ==
    IsDict(bbox) /\ \A k \in {"x", "y", "width", "height"} : IsNumber(bbox[k])

(***************************************************************************)
(* State.                                                                  *)
(***************************************************************************)
VARIABLES
    demo,        \* which script runs: "amazon", "gvision" or "gsdk"
    pc,          \* position in the script
    run,         \* "running"; "failed": halted by the script's own raise/return;
                 \* "fault": halted by an exception the script did not raise
                 \* itself; "complete": the script printed its COMPLETE banner
    scene,       \* number of the scene the script is in (0 before Scene 1)
    url,         \* page.url of the browser
    url_before,  \* local url_before (-1: not assigned yet)
    url_after,   \* local url_after  (-1: not assigned yet)
    result,      \* local result: what the locator returned last
    x, y,        \* locals x and y
    ledger,      \* the TokenTracker's records, in append order
    requests,    \* number of provider requests issued so far
    calls,       \* number of locator calls started so far
    log,         \* what the run did so far: records [e, scene]
    pointer,     \* pointer actions issued in the current scene: <<x, y>> each
    primary,     \* per scene, the outcome of the primary attempt
    final,       \* per scene, the outcome the scene ended with
    snapshot_data,  \* gsdk: local snapshot_data, a dict [elements, url]
    filtered_data,  \* gsdk: local filtered_data, a dict [elements, url]
    exclude_roles,  \* gsdk: the exclude_roles of the last filter_elements call
    response,    \* what the provider did in the last locator call
    halt_pc      \* the position at which the run halted ("none" while it runs)

vars == <<demo, pc, run, scene, url, url_before, url_after, result, x, y,
          ledger, requests, calls, log, pointer, primary, final,
          snapshot_data, filtered_data, exclude_roles, response, halt_pc>>

Urls == 0..MaxUrl
Scenes == 1..5
Demos == {"amazon", "gvision", "gsdk"}

Init ==
    /\ demo \in Demos
    /\ pc = "start"
    /\ run = "running"
    /\ scene = 0
    /\ url = 0
    /\ url_before = -1
    /\ url_after = -1
    /\ result = Unset
    /\ x = Null
    /\ y = Null
    /\ ledger = <<>>
    /\ requests = 0
    /\ calls = 0
    /\ log = <<>>
    /\ pointer = <<>>
    /\ primary = [s \in Scenes |-> "None"]
    /\ final = [s \in Scenes |-> "None"]
    /\ snapshot_data = NoSnapshot
    /\ filtered_data = NoSnapshot
    /\ exclude_roles = {}
    /\ response = NoResponse
    /\ halt_pc = "none"

Event(e, s) == [e |-> e, scene |-> s]

\* The script's own raise Exception(...) / error return in scene s.
Halt(s, how) ==
    /\ pc' = "halted"
    /\ run' = how
    /\ final' = [final EXCEPT ![s] = IF how = "fault" THEN "Fault" ELSE "Failed"]
    /\ halt_pc' = pc

\* page.mouse.click(x, y): the driver rejects a coordinate that is not a number.
ClickRaises(px, py) == ~(IsNumber(px) /\ IsNumber(py))

(***************************************************************************)
(* The locator call of the two vision scripts.                             *)
(***************************************************************************)
\* result = agent.analyze_screenshot(screenshot_path, prompt, scene_name)
Analyze(at, next, scene_name, docs) ==
    /\ pc = at
    /\ run = "running"
    /\ \E provider \in ProviderOutcomes(docs, 1) :
         LET r == analyze_screenshot(provider, scene_name, ledger)
         IN  /\ ledger' = r.ledger
             /\ response' = provider
             /\ requests' = requests + 1
             /\ calls' = calls + 1
             /\ log' = Append(log, Event("model_call", scene))
             /\ IF r.raised
                THEN /\ Halt(scene, "fault")
                     /\ UNCHANGED <<result, primary>>
                ELSE /\ result' = r.result
                     /\ pc' = next
                     /\ UNCHANGED <<run, primary, final, halt_pc>>
    /\ UNCHANGED <<exclude_roles, demo, scene, url, url_before, url_after, x, y, pointer, snapshot_data, filtered_data>>


(***************************************************************************)
(* Steps shared by the point-target scenes of the two vision scripts.      *)
(***************************************************************************)
\* Start of a scene that takes a screenshot: print "[Scene s]", screenshot.
Observe(at, next, s) ==
    /\ pc = at
    /\ run = "running"
    /\ pc' = next
    /\ scene' = s
    /\ pointer' = <<>>
    /\ log' = Append(log, Event("capture", s))
    /\ UNCHANGED <<exclude_roles, demo, run, url, url_before, url_after, result, x, y, ledger,
                   requests, calls, primary, final, snapshot_data, filtered_data, response, halt_pc>>

\* Extraction ex of x and y from result, then `if x is None or y is None:`
\* with the script's raise Exception in the rejecting branch.
ValidateOrRaise(at, next, ex) ==
    /\ pc = at
    /\ run = "running"
    /\ IF ex.fault
       THEN /\ Halt(scene, "fault")
            /\ primary' = [primary EXCEPT ![scene] = "Fault"]
            /\ UNCHANGED <<x, y>>
       ELSE /\ x' = ex.x
            /\ y' = ex.y
            /\ IF Rejected(ex.x, ex.y)
               THEN /\ Halt(scene, "failed")
                    /\ primary' = [primary EXCEPT ![scene] = "Failed"]
               ELSE /\ pc' = next
                    /\ UNCHANGED <<run, primary, final, halt_pc>>
    /\ UNCHANGED <<exclude_roles, demo, scene, url, url_before, url_after, result, ledger,
                   requests, calls, log, pointer, snapshot_data, filtered_data, response>>

\* page.mouse.click(x, y) and a settle delay, in a scene that does not check
\* the page afterwards.
ClickUnchecked(at, next) ==
    /\ pc = at
    /\ run = "running"
    /\ pointer' = Append(pointer, <<x, y>>)
    /\ log' = Append(log, Event("click", scene))
    /\ primary' = [primary EXCEPT ![scene] = IF ClickRaises(x, y) THEN "Fault" ELSE "Applied"]
    /\ IF ClickRaises(x, y)
       THEN /\ Halt(scene, "fault")
            /\ UNCHANGED url
       ELSE /\ url' \in Urls
            /\ pc' = next
            /\ final' = [final EXCEPT ![scene] = "Applied"]
            /\ UNCHANGED <<run, halt_pc>>
    /\ UNCHANGED <<exclude_roles, demo, scene, url_before, url_after, result, x, y, ledger, requests, calls, snapshot_data, filtered_data, response>>

\* Scene 2 of the vision scripts: type the query, screenshot, press Enter.
TypeQuery(at, next) ==
    /\ pc = at
    /\ run = "running"
    /\ pc' = next
    /\ scene' = 2
    /\ pointer' = <<>>
    /\ log' = log \o <<Event("type", 2), Event("capture", 2), Event("enter", 2)>>
    /\ url' \in Urls
    /\ primary' = [primary EXCEPT ![2] = "Applied"]
    /\ final' = [final EXCEPT ![2] = "Applied"]
    /\ UNCHANGED <<exclude_roles, demo, run, url_before, url_after, result, x, y, ledger, requests, calls, snapshot_data, filtered_data, response, halt_pc>>

\* url_before = page.url; page.mouse.click(x, y); settle; url_after = page.url;
\* `if url_before == url_after:` enters the recovery at pc recover.
ClickAndCheck(at, recover, next) ==
    /\ pc = at
    /\ run = "running"
    /\ url_before' = url
    /\ pointer' = Append(pointer, <<x, y>>)
    /\ log' = Append(log, Event("click", scene))
    /\ IF ClickRaises(x, y)
       THEN /\ Halt(scene, "fault")
            /\ primary' = [primary EXCEPT ![scene] = "Fault"]
            /\ UNCHANGED <<url, url_after>>
       ELSE /\ url' \in Urls
            /\ url_after' = url'
            /\ primary' = [primary EXCEPT ![scene] = Judge(url_before', url_after')]
            /\ IF Judge(url_before', url_after') = "Unconfirmed"
               THEN pc' = recover /\ UNCHANGED final
               ELSE pc' = next /\ final' = [final EXCEPT ![scene] = "Confirmed"]
            /\ UNCHANGED <<run, halt_pc>>
    /\ UNCHANGED <<exclude_roles, demo, scene, result, x, y, ledger, requests, calls, snapshot_data, filtered_data, response>>


\* A repeat that clicks at the coordinates in the other order.
RepeatClick_Swapped(at) ==
    /\ pc = at
    /\ run = "running"
    /\ pointer' = Append(pointer, <<y, x>>)
    /\ log' = Append(log, Event("repeat", scene))
    /\ url' \in Urls
    /\ url_after' = url'
    /\ UNCHANGED <<exclude_roles, demo, scene, url_before, result, x, y, ledger, requests,
                   calls, primary, snapshot_data, filtered_data, response>>

\* The repeat: page.mouse.click(x, y, click_count=1); settle; url_after =
\* page.url.  The `if url_before == url_after:` that follows is the caller's.
RepeatClick(at) ==
    /\ pc = at
    /\ run = "running"
    /\ pointer' = Append(pointer, <<x, y>>)
    /\ log' = Append(log, Event("repeat", scene))
    /\ url' \in Urls
    /\ url_after' = url'
    /\ UNCHANGED <<exclude_roles, demo, scene, url_before, result, x, y, ledger, requests,
                   calls, primary, snapshot_data, filtered_data, response>>

\* A click through a structural locator inside try/except: Playwright raises
\* (no such element, timeout) and the script raises its own Exception, or the
\* click is performed; the page is not checked afterwards.
SelectorClick(at, next) ==
    /\ pc = at
    /\ run = "running"
    /\ \/ /\ log' = log \o <<Event("selector_click", scene), Event("selector_error", scene)>>
          /\ Halt(scene, "failed")
          /\ UNCHANGED url
       \/ /\ log' = Append(log, Event("selector_click", scene))
          /\ url' \in Urls
          /\ pc' = next
          /\ final' = [final EXCEPT ![scene] = "Applied"]
          /\ UNCHANGED <<run, halt_pc>>
    /\ UNCHANGED <<exclude_roles, demo, scene, url_before, url_after, result, x, y, ledger,
                   requests, calls, pointer, primary, snapshot_data, filtered_data, response>>

\* tracker.print_summary(); tracker.save_to_file(...), then the rest of main
\* up to the COMPLETE banner (video generation is inside try/except).
Summary(at) ==
    /\ pc = at
    /\ run = "running"
    /\ pc' = "done"
    /\ run' = "complete"
    /\ log' = log \o <<Event("summary", scene), Event("complete", scene)>>
    /\ UNCHANGED <<exclude_roles, halt_pc, demo, scene, url, url_before, url_after, result, x, y, ledger,
                   requests, calls, pointer, primary, final, snapshot_data, filtered_data, response>>

(***************************************************************************)
(* amazon_shopping/demo2_vision_llm/main.py                                *)
(***************************************************************************)
\* Scene 1: page.goto, settle, screenshot.
A1_Observe ==
    /\ demo = "amazon"
    /\ Observe("start", "a1_decide", 1)

A1_Decide == demo = "amazon" /\ Analyze("a1_decide", "a1_validate", "Scene 1: Find Search Bar", ClickDocs)

A1_Validate == ValidateOrRaise("a1_validate", "a1_click", ExtractScene1(result))

\* A Scene 1 click after which the script goes on with Scene 3.
A1_Click_SkipScene2 == ClickUnchecked("a1_click", "a3_observe")

A1_Click == ClickUnchecked("a1_click", "a2_type")

\* A Scene 2 after which the script asks the model without a new screenshot.
A2_Type_SkipCapture == TypeQuery("a2_type", "a3_decide")

A2_Type == TypeQuery("a2_type", "a3_observe")

A3_Observe == Observe("a3_observe", "a3_decide", 3)

A3_Decide == Analyze("a3_decide", "a3_validate", "Scene 3: Select Product", ClickDocs)

A3_Validate == ValidateOrRaise("a3_validate", "a3_click", ExtractGuarded(result))

\* A Scene 3 click that goes to the selector without repeating the click.
A3_Click_SkipRepeat == ClickAndCheck("a3_click", "a3_fallback", "a4_observe")

A3_Click == ClickAndCheck("a3_click", "a3_repeat", "a4_observe")

\* A repeat after which the script clicks the selector whatever the URL is.
A3_Repeat_AlwaysFallback ==
    /\ RepeatClick("a3_repeat")
    /\ pc' = "a3_fallback"
    /\ UNCHANGED <<run, final, halt_pc>>

A3_Repeat ==
    /\ RepeatClick("a3_repeat")
    /\ IF Judge(url_before, url_after') = "Unconfirmed"
       THEN pc' = "a3_fallback" /\ UNCHANGED <<run, final, halt_pc>>
       ELSE pc' = "a4_observe" /\ final' = [final EXCEPT ![3] = "Confirmed"] /\ UNCHANGED <<run, halt_pc>>

\* A selector fallback after which Scene 3 asks the model again.
A3_Fallback_Retry == SelectorClick("a3_fallback", "a3_decide")

\* page.locator("a[href*='/dp/'], a[href*='/gp/product/']").first.click()
A3_Fallback == SelectorClick("a3_fallback", "a4_observe")

\* Scene 4: taller viewport, screenshot.
A4_Observe == Observe("a4_observe", "a4_decide", 4)

A4_Decide == Analyze("a4_decide", "a4_validate", "Scene 4: Add to Cart", ClickDocs)

\* Scene 4 does not raise on a rejected decision: it goes to the selector.
A4_Validate ==
    /\ pc = "a4_validate"
    /\ run = "running"
    /\ LET ex == ExtractGuarded(result)
       IN  IF ex.fault
           THEN /\ Halt(scene, "fault")
                /\ primary' = [primary EXCEPT ![scene] = "Fault"]
                /\ UNCHANGED <<x, y>>
           ELSE /\ x' = ex.x
                /\ y' = ex.y
                /\ IF Rejected(ex.x, ex.y)
                   THEN /\ pc' = "a4_selector"
                        /\ primary' = [primary EXCEPT ![scene] = "Failed"]
                   ELSE /\ pc' = "a4_click"
                        /\ UNCHANGED primary
                /\ UNCHANGED <<run, final, halt_pc>>
    /\ UNCHANGED <<exclude_roles, demo, scene, url, url_before, url_after, result, ledger,
                   requests, calls, log, pointer, snapshot_data, filtered_data, response>>

\* A selector click after which the script still clicks at x and y.
A4_Selector_ThenClick == SelectorClick("a4_selector", "a4_click")

\* page.locator("#add-to-cart-button").first.click()
A4_Selector == SelectorClick("a4_selector", "a5_observe")

A4_Click == ClickUnchecked("a4_click", "a5_observe")

A5_Observe == Observe("a5_observe", "a5_decide", 5)

A5_Decide == Analyze("a5_decide", "a5_report", "Scene 5: Verify Success", VerifyDocs)

\* `if result.get('success'):` prints SUCCESS and the joined confirmations,
\* else prints FAILED; either way the script goes on to browser.close().
A5_Report ==
    /\ pc = "a5_report"
    /\ run = "running"
    /\ IF ~IsDict(result)
       THEN /\ Halt(5, "fault")
            /\ primary' = [primary EXCEPT ![5] = "Fault"]
            /\ UNCHANGED log
       ELSE IF Truthy(Get(result, "success"))
            THEN IF GetDefault(result, "confirmation_elements", List(0)).t # "list"
                 THEN /\ Halt(5, "fault")
                      /\ primary' = [primary EXCEPT ![5] = "Fault"]
                      /\ UNCHANGED log
                 ELSE /\ pc' = "a_summary"
                      /\ log' = Append(log, Event("success_report", 5))
                      /\ primary' = [primary EXCEPT ![5] = "Confirmed"]
                      /\ final' = [final EXCEPT ![5] = "Confirmed"]
                      /\ UNCHANGED <<run, halt_pc>>
            ELSE /\ pc' = "a_summary"
                 /\ log' = Append(log, Event("failed_report", 5))
                 /\ primary' = [primary EXCEPT ![5] = "Failed"]
                 /\ final' = [final EXCEPT ![5] = "Failed"]
                 /\ UNCHANGED <<run, halt_pc>>
    /\ UNCHANGED <<exclude_roles, demo, scene, url, url_before, url_after, result, x, y, ledger,
                   requests, calls, pointer, snapshot_data, filtered_data, response>>

A_Summary == Summary("a_summary")

NextAmazon ==
    \/ A1_Observe \/ A1_Decide \/ A1_Validate \/ A1_Click \/ A2_Type
    \/ A3_Observe \/ A3_Decide \/ A3_Validate \/ A3_Click \/ A3_Repeat \/ A3_Fallback
    \/ A4_Observe \/ A4_Decide \/ A4_Validate \/ A4_Selector \/ A4_Click
    \/ A5_Observe \/ A5_Decide \/ A5_Report \/ A_Summary

(***************************************************************************)
(* google_search/demo2_vision/main.py                                      *)
(***************************************************************************)
V1_Observe ==
    /\ demo = "gvision"
    /\ Observe("start", "v1_decide", 1)

V1_Decide == demo = "gvision" /\ Analyze("v1_decide", "v1_validate", "Scene 1: Find Search Box", ClickDocs)

V1_Validate == ValidateOrRaise("v1_validate", "v1_click", ExtractGuarded(result))

V1_Click == ClickUnchecked("v1_click", "v2_type")

V2_Type == TypeQuery("v2_type", "v3_observe")

V3_Observe == Observe("v3_observe", "v3_decide", 3)

V3_Decide == Analyze("v3_decide", "v3_validate", "Scene 3: Select Search Result", ClickDocs)

V3_Validate == ValidateOrRaise("v3_validate", "v3_click", ExtractGuarded(result))

V3_Click == ClickAndCheck("v3_click", "v3_repeat", "v4_final")

\* A repeat after which the script goes on to Scene 4 whatever the URL is.
V3_Repeat_Proceed ==
    /\ RepeatClick("v3_repeat")
    /\ pc' = "v4_final"
    /\ final' = [final EXCEPT ![3] = "Confirmed"]
    /\ UNCHANGED <<run, halt_pc>>

\* The repeat; if the URL is still unchanged the script raises.
V3_Repeat ==
    /\ RepeatClick("v3_repeat")
    /\ IF Judge(url_before, url_after') = "Unconfirmed"
       THEN Halt(3, "failed")
       ELSE pc' = "v4_final" /\ final' = [final EXCEPT ![3] = "Confirmed"] /\ UNCHANGED <<run, halt_pc>>

\* Scene 4: final screenshot, the SUCCESS report, browser.close().
FinalCapture(at, next) ==
    /\ pc = at
    /\ run = "running"
    /\ pc' = next
    /\ scene' = 4
    /\ pointer' = <<>>
    /\ log' = log \o <<Event("capture", 4), Event("success_report", 4)>>
    /\ primary' = [primary EXCEPT ![4] = "Applied"]
    /\ final' = [final EXCEPT ![4] = "Applied"]
    /\ UNCHANGED <<exclude_roles, demo, run, url, url_before, url_after, result, x, y, ledger,
                   requests, calls, snapshot_data, filtered_data, response, halt_pc>>

V4_Final == FinalCapture("v4_final", "v_summary")

V_Summary == Summary("v_summary")

NextGVision ==
    \/ V1_Observe \/ V1_Decide \/ V1_Validate \/ V1_Click \/ V2_Type
    \/ V3_Observe \/ V3_Decide \/ V3_Validate \/ V3_Click \/ V3_Repeat
    \/ V4_Final \/ V_Summary

(***************************************************************************)
(* google_search/demo1_sdk/main.py                                         *)
(***************************************************************************)
\* An empty check that lets the script go on to the locator call of scene s.
Return_Proceed(s) ==
    /\ pc' = (IF s = 1 THEN "g1_decide" ELSE "g3_decide")
    /\ UNCHANGED <<run, final, halt_pc>>

\* The script's early `return` after an ERROR print, in scene s.
Return(s) == Halt(s, "failed")

\* Scene 1 up to the locator call: goto, screenshot, snapshot, role filter,
\* `if not filtered_data.get('elements'): return`.
G1_Observe ==
    /\ demo = "gsdk"
    /\ pc = "start"
    /\ run = "running"
    /\ scene' = 1
    /\ pointer' = <<>>
    /\ log' = Append(log, Event("capture", 1))
    /\ exclude_roles' = {"img", "button", "link"}
    /\ snapshot_data' \in Snapshots(url)
    /\ filtered_data' = filter_elements(snapshot_data', exclude_roles')
    /\ IF filtered_data'.elements = <<>>
       THEN Return(1) /\ primary' = [primary EXCEPT ![1] = "Failed"]
       ELSE pc' = "g1_decide" /\ UNCHANGED <<run, primary, final, halt_pc>>
    /\ UNCHANGED <<demo, url, url_before, url_after, result, x, y, ledger, requests, calls, response>>

\* result = agent.analyze_snapshot(filtered_data, prompt, scene_name)
AnalyzeSnapshot(at, next, scene_name) ==
    /\ pc = at
    /\ run = "running"
    /\ \E provider \in ProviderOutcomes(BoxDocs, Len(filtered_data.elements)) :
         LET r == analyze_snapshot(provider, scene_name, ledger)
         IN  /\ ledger' = r.ledger
             /\ response' = provider
             /\ result' = r.result
    /\ requests' = requests + 1
    /\ calls' = calls + 1
    /\ log' = Append(log, Event("model_call", scene))
    /\ pc' = next
    /\ UNCHANGED <<exclude_roles, demo, run, scene, url, url_before, url_after, x, y, pointer,
                   primary, final, snapshot_data, filtered_data, halt_pc>>

G1_Decide == demo = "gsdk" /\ AnalyzeSnapshot("g1_decide", "g1_validate", "Scene 1: Find Search Box")

\* The validation of the result and its `return` in the rejecting branch.
ValidateBboxOrReturn(at, next) ==
    /\ pc = at
    /\ run = "running"
    /\ LET verdict == ValidateBbox(result)
       IN  IF verdict = "accept"
           THEN pc' = next /\ UNCHANGED <<run, primary, final, halt_pc>>
           ELSE /\ Halt(scene, IF verdict = "fault" THEN "fault" ELSE "failed")
                /\ primary' = [primary EXCEPT ![scene] = IF verdict = "fault" THEN "Fault" ELSE "Failed"]
    /\ UNCHANGED <<exclude_roles, demo, scene, url, url_before, url_after, result, x, y, ledger,
                   requests, calls, log, pointer, snapshot_data, filtered_data, response>>

G1_Validate == ValidateBboxOrReturn("g1_validate", "g1_click")

\* The box handed to click_rect, as a pointer record.
BoxOf(res) == <<res.bbox.x, res.bbox.y, res.bbox.width, res.bbox.height>>

\* click_rect(browser, result['bbox'], ...) and the settle delay.  With a
\* box of four numbers the click is performed; what the SDK does with any
\* other box is not known: it raises, or it returns with or without a click.
G1_Click ==
    /\ pc = "g1_click"
    /\ run = "running"
    /\ pointer' = Append(pointer, BoxOf(result))
    /\ log' = Append(log, Event("click", 1))
    /\ \/ /\ ~WellFormedBox(result.bbox)
          /\ Halt(1, "fault")
          /\ primary' = [primary EXCEPT ![1] = "Fault"]
          /\ UNCHANGED url
       \/ /\ url' \in Urls
          /\ pc' = "g2_type"
          /\ primary' = [primary EXCEPT ![1] = "Applied"]
          /\ final' = [final EXCEPT ![1] = "Applied"]
          /\ UNCHANGED <<run, halt_pc>>
    /\ UNCHANGED <<exclude_roles, demo, scene, url_before, url_after, result, x, y, ledger,
                   requests, calls, snapshot_data, filtered_data, response>>

G2_Type == TypeQuery("g2_type", "g3_observe")

\* Scene 3 up to the locator call: screenshot, snapshot, role filter, ad
\* filter, `if not filtered_data.get('elements'): return`.
G3_Observe ==
    /\ pc = "g3_observe"
    /\ run = "running"
    /\ scene' = 3
    /\ pointer' = <<>>
    /\ log' = Append(log, Event("capture", 3))
    /\ exclude_roles' = {"searchbox", "button", "img"}
    /\ snapshot_data' \in Snapshots(url)
    /\ LET by_role == filter_elements(snapshot_data', exclude_roles')
       IN  IF AdFilterFaults(by_role.elements)
           THEN /\ filtered_data' = by_role
                /\ Halt(3, "fault")
                /\ primary' = [primary EXCEPT ![3] = "Fault"]
           ELSE /\ filtered_data' = [by_role EXCEPT !.elements = FilterAds(by_role.elements)]
                /\ IF filtered_data'.elements = <<>>
                   THEN Return(3) /\ primary' = [primary EXCEPT ![3] = "Failed"]
                   ELSE pc' = "g3_decide" /\ UNCHANGED <<run, primary, final, halt_pc>>
    /\ UNCHANGED <<demo, url, url_before, url_after, result, x, y, ledger, requests, calls, response>>

G3_Decide == AnalyzeSnapshot("g3_decide", "g3_validate", "Scene 3: Select Search Result")

G3_Validate == ValidateBboxOrReturn("g3_validate", "g3_click")

\* url_before = page.url; click_rect; settle; url_after = page.url; the
\* comparison only chooses between a WARNING and a success message.
G3_Click ==
    /\ pc = "g3_click"
    /\ run = "running"
    /\ url_before' = url
    /\ pointer' = Append(pointer, BoxOf(result))
    /\ log' = Append(log, Event("click", 3))
    /\ \/ /\ ~WellFormedBox(result.bbox)
          /\ Halt(3, "fault")
          /\ primary' = [primary EXCEPT ![3] = "Fault"]
          /\ UNCHANGED <<url, url_after>>
       \/ /\ url' \in Urls
          /\ url_after' = url'
          /\ pc' = "g4_final"
          /\ primary' = [primary EXCEPT ![3] = Judge(url_before', url_after')]
          /\ final' = [final EXCEPT ![3] = Judge(url_before', url_after')]
          /\ UNCHANGED <<run, halt_pc>>
    /\ UNCHANGED <<exclude_roles, demo, scene, result, x, y, ledger, requests, calls,
                   snapshot_data, filtered_data, response>>

G4_Final == FinalCapture("g4_final", "g_summary")

G_Summary == Summary("g_summary")

NextGSdk ==
    \/ G1_Observe \/ G1_Decide \/ G1_Validate \/ G1_Click \/ G2_Type
    \/ G3_Observe \/ G3_Decide \/ G3_Validate \/ G3_Click \/ G4_Final \/ G_Summary

Next == NextAmazon \/ NextGVision \/ NextGSdk

Spec == Init /\ [][Next]_vars

(***************************************************************************)
(* The ledger alone: a tracker that receives the records of N locator      *)
(* calls, whatever their scene names and token counts.                     *)
(***************************************************************************)
SceneNames == {"Scene 1: Find Search Bar", "Scene 3: Select Product"}

InitLedger ==
    /\ demo = "amazon"
    /\ pc = "ledger"
    /\ run = "running"
    /\ scene = 0
    /\ url = 0
    /\ url_before = -1
    /\ url_after = -1
    /\ result = Unset
    /\ x = Null
    /\ y = Null
    /\ ledger = <<>>
    /\ requests = 0
    /\ calls = 0
    /\ log = <<>>
    /\ pointer = <<>>
    /\ primary = [s \in Scenes |-> "None"]
    /\ final = [s \in Scenes |-> "None"]
    /\ snapshot_data = NoSnapshot
    /\ filtered_data = NoSnapshot
    /\ exclude_roles = {}
    /\ response = NoResponse
    /\ halt_pc = "none"

\* One locator call hands its usage to the tracker.
LogInteraction ==
    /\ pc = "ledger"
    /\ Len(ledger) < MaxRecords
    /\ \E scene_name \in SceneNames, prompt_tokens \in 0..MaxTokens, completion_tokens \in 0..MaxTokens :
         ledger' = log_interaction(ledger, scene_name, prompt_tokens, completion_tokens)
    /\ calls' = calls + 1
    /\ UNCHANGED <<exclude_roles, demo, pc, run, scene, url, url_before, url_after, result, x, y,
                   requests, log, pointer, primary, final, snapshot_data,
                   filtered_data, response, halt_pc>>

NextLedger == LogInteraction

SpecLedger == InitLedger /\ [][NextLedger]_vars


(***************************************************************************)
(* filter_elements on its own: one snapshot, one list of excluded roles,   *)
(* the function applied to the snapshot and then to its own result.        *)
(***************************************************************************)
\* Roles of the elements of a snapshot; "none" is an element without a role
\* key, for which elem.get('role') is None.
FilterRoles == {"link", "searchbox", "img", "none"}

\* The exclude_roles lists a caller can pass: role names, never None.
ExcludeSets == SUBSET {"link", "searchbox", "img"}

FilterElements == {[role |-> r, text |-> Text(<<"A", "d">>)] : r \in FilterRoles}

FilterLists == UNION {[1..n -> FilterElements] : n \in 0..(MaxElems + 2)}

InitFilter ==
    /\ demo = "gsdk"
    /\ pc = "filter"
    /\ run = "running"
    /\ scene = 0
    /\ url = 0
    /\ url_before = -1
    /\ url_after = -1
    /\ result = Unset
    /\ x = Null
    /\ y = Null
    /\ ledger = <<>>
    /\ requests = 0
    /\ calls = 0
    /\ log = <<>>
    /\ pointer = <<>>
    /\ primary = [s \in Scenes |-> "None"]
    /\ final = [s \in Scenes |-> "None"]
    /\ snapshot_data \in {[elements |-> es, url |-> u] : es \in FilterLists, u \in Urls}
    /\ filtered_data = NoSnapshot
    /\ exclude_roles \in ExcludeSets
    /\ response = NoResponse
    /\ halt_pc = "none"

\* filtered_data = filter_elements(snapshot_data, exclude_roles): the result
\* is a new dict (snapshot_data.copy() with its 'elements' key rebound), the
\* argument keeps its own list.
FilterOnce ==
    /\ pc = "filter"
    /\ filtered_data' = filter_elements(snapshot_data, exclude_roles)
    /\ pc' = "filtered"
    /\ UNCHANGED <<demo, run, scene, url, url_before, url_after, result, x, y, ledger,
                   requests, calls, log, pointer, primary, final, snapshot_data,
                   exclude_roles, response, halt_pc>>

\* filtered_data = filter_elements(filtered_data, exclude_roles)
FilterAgain ==
    /\ pc = "filtered"
    /\ filtered_data' = filter_elements(filtered_data, exclude_roles)
    /\ pc' = "refiltered"
    /\ UNCHANGED <<demo, run, scene, url, url_before, url_after, result, x, y, ledger,
                   requests, calls, log, pointer, primary, final, snapshot_data,
                   exclude_roles, response, halt_pc>>

NextFilter == FilterOnce \/ FilterAgain

SpecFilter == InitFilter /\ [][NextFilter]_vars


(***************************************************************************)
(* Vocabulary of the properties.                                           *)
(***************************************************************************)
HasEvent(e, s) == \E i \in 1..Len(log) : log[i] = Event(e, s)

LastEvent == IF log = <<>> THEN Event("none", 0) ELSE log[Len(log)]

ValidatePcs ==
    {"a1_validate", "a3_validate", "a4_validate", "v1_validate", "v3_validate",
     "g1_validate", "g3_validate"}

Scene3Pcs == {"a3_observe", "a3_decide", "a3_validate", "a3_click", "a3_repeat", "a3_fallback"}

VisionDemos == {"amazon", "gvision"}

\* The scenes of the running script that click a target the locator names.
ClickScenes == IF demo = "amazon" THEN {1, 3, 4} ELSE {1, 3}

\* The locator returned in the current scene and the scene's validation of
\* what it returned has run.
Validated ==
    /\ scene \in ClickScenes
    /\ HasEvent("model_call", scene)
    /\ ~response.raises
    /\ pc \notin ValidatePcs

\* The slot the running script reads its target from.
TargetOf(res) == IF demo = "gsdk" THEN res.bbox ELSE res.coordinates

\* The locator's result cannot serve as a target: its error result, a
\* coordinates/bbox value that is absent or null, or an x or y that is null.
Unusable(res) ==
    /\ IsDict(res)
    /\ \/ res.error.t # "absent"
       \/ TargetOf(res).t \in {"absent", "null"}
       \/ /\ IsDict(TargetOf(res))
          /\ TargetOf(res).x.t = "null" \/ TargetOf(res).y.t = "null"

\* The error result of the locator: an error field and null coordinates.
IsMalformed(res) == IsDict(res) /\ res.error.t # "absent" /\ res.coordinates.t = "null"

\* C1: in every scene of every script, when the locator's result is unusable
\* as a target, the scene's attempt is Failed and no pointer action at
\* model-supplied coordinates is issued in that scene.
C1_UnusableIsFailedAndNotClicked ==
    (Validated /\ Unusable(result)) => (primary[scene] = "Failed" /\ pointer = <<>>)

\* C2: in the click scenes of both vision scripts a decision whose x or y is
\* missing, null or not a number is never accepted (the script never stands
\* at, or beyond, its click with such an x or y) and never reaches a pointer
\* click.
C2_NonNumericNeverClicked ==
    demo \in VisionDemos =>
        /\ \A i \in 1..Len(pointer) : IsNumber(pointer[i][1]) /\ IsNumber(pointer[i][2])
        /\ pc \in {"a1_click", "a3_click", "a4_click", "v1_click", "v3_click"}
              => (IsNumber(x) /\ IsNumber(y))

\* C3: for every dict the locator returns, whatever the shape of its
\* coordinates/bbox value, the extraction and validation step of a scene ends
\* in a typed outcome: the run never halts there by an exception the script
\* did not raise itself.
C3_ExtractionNeverFaults ==
    (run = "fault" /\ halt_pc \in ValidatePcs) => ~IsDict(result)

\* C4: for every response text that does not parse as the expected schema
\* (text that is not JSON, JSON whose top-level value is not an object),
\* analyze_screenshot returns its error result.
C4_UnparsableIsMalformed ==
    (/\ demo \in VisionDemos
     /\ calls > 0
     /\ ~response.raises
     /\ response.content.present
     /\ ~(response.content.valid /\ IsDict(response.content.doc)))
    => IsMalformed(result)

\* C5: when the provider request of analyze_screenshot raises, the call
\* returns its error result to the script (the run does not halt in the
\* call), and every call issues exactly one request.
C5_TransportFailureIsMalformed ==
    demo \in VisionDemos =>
        /\ requests = calls
        /\ (calls > 0 /\ response.raises) => (run # "fault" /\ IsMalformed(result))

\* C6: in a navigation scene the page URL is read before the click and again
\* after the settle delay; equal readings give the outcome Unconfirmed (and
\* lead the vision scripts into their recovery), different readings give
\* Confirmed (and lead them to the next scene).
C6_OutcomeByUrlComparison ==
    [][(pc \in {"a3_click", "v3_click", "g3_click"} /\ pc' # pc /\ run' = "running")
        => /\ url_before' = url
           /\ url_after' = url'
           /\ (url = url') => primary'[3] = "Unconfirmed"
           /\ (url # url') => primary'[3] = "Confirmed"
           /\ pc = "a3_click" => pc' = (IF url = url' THEN "a3_repeat" ELSE "a4_observe")
           /\ pc = "v3_click" => pc' = (IF url = url' THEN "v3_repeat" ELSE "v4_final")]_vars

\* A primary click of Amazon Scene 3 that left the URL unchanged.
C6_Witness ==
    /\ pc = "a3_repeat"
    /\ primary[3] = "Unconfirmed"
    /\ url_before = url_after
    /\ Len(pointer) = 1

C8_FailedFallbackHalts ==
    demo = "amazon" =>
        /\ LastEvent = Event("selector_error", 3)
              => (run = "failed" /\ halt_pc = "a3_fallback" /\ final[3] = "Failed")
        /\ (LastEvent = Event("selector_click", 3) /\ url = url_before)
              => (run = "failed" /\ pc # "a4_observe")

\* C9: for a decision whose x is null and whose y is present, in every click
\* scene of the vision scripts: the attempt is Failed, no pointer action is
\* issued, and where the script has a structural locator for the scene
\* (Amazon Scenes 3 and 4) the run is not halted as failed before the
\* selector click was attempted.
C9_NullXFallsBack ==
    (/\ demo \in VisionDemos
     /\ Validated
     /\ IsDict(result)
     /\ IsDict(result.coordinates)
     /\ result.coordinates.x.t = "null"
     /\ ~IsNone(result.coordinates.y))
    => /\ primary[scene] = "Failed"
       /\ pointer = <<>>
       /\ (demo = "amazon" /\ scene \in {3, 4} /\ run = "failed")
             => HasEvent("selector_click", scene)

\* C10: the SDK script reports success in Scene 4 only if the URL read after
\* the Scene 3 click differs from the URL read before it, or a recovery was
\* attempted in Scene 3.
C10_SuccessOnlyAfterConfirmed ==
    (demo = "gsdk" /\ HasEvent("success_report", 4))
    => \/ url_before # url_after
       \/ HasEvent("repeat", 3)
       \/ HasEvent("selector_click", 3)

\* C11: Amazon Scene 4 ends Confirmed or Failed before the run advances to
\* Scene 5: the run never stands in Scene 5 after a Scene 4 action that was
\* performed without its post-condition having been observed.
C11_Scene4ConfirmedOrFailed ==
    (demo = "amazon" /\ scene = 5) => final[4] \in {"Confirmed", "Failed"}

\* The scenes that have done something so far.
ScenesRun == {log[i].scene : i \in DOMAIN log}

\* C12: the scenes run in their fixed order: the scene number only ever
\* grows, and by one; a scene starts only while the run is alive and after
\* the scene before it has ended; everything the run does belongs to the
\* scene it is in; and at every moment (so also when the run halts) the
\* scenes that have run are exactly a prefix of the scene list.
C12_ScenesInOrder ==
    [][/\ scene' \in {scene, scene + 1}
       /\ scene' = scene + 1
             => /\ run = "running"
                /\ scene > 0 => final[scene] \notin {"None", "Failed", "Fault"}
       /\ \A i \in (Len(log) + 1)..Len(log') : log'[i].scene = scene'
       /\ \A i \in 1..Len(log) : log'[i] = log[i]
       /\ ScenesRun' = 1..scene']_vars

\* A complete Amazon run: five scenes, in order.
C12_Witness ==
    /\ demo = "amazon"
    /\ run = "complete"
    /\ scene = 5
    /\ ScenesRun = 1..5

\* C13: a run ends in exactly one terminal state; it ends as succeeded only
\* when every scene was confirmed or accepted without a check, and as failed
\* with the scene it failed in marked as failed.
C13_TerminalStates ==
    /\ (run = "complete") <=> (pc = "done")
    /\ (run \in {"failed", "fault"}) <=> (pc = "halted")
    /\ run = "complete" => \A s \in 1..scene : final[s] \in {"Confirmed", "Applied"}
    /\ run \in {"failed", "fault"} => final[scene] \in {"Failed", "Fault"}

\* C14: the Amazon run is reported complete only if the Scene 5 verification
\* decision had success true; a decision with success false or absent ends
\* the run as a failure in Scene 5.
C14_CompleteOnlyIfVerified ==
    demo = "amazon" =>
        /\ run = "complete" => (IsDict(result) /\ Truthy(Get(result, "success")))
        /\ HasEvent("failed_report", 5) => run # "complete"

\* C15: when the Scene 5 decision of the Amazon run has success true, the
\* run is recorded as succeeded (the success report is made and the run is
\* alive or complete), with no model call, pointer action or fallback after
\* the decision.
C15_SuccessEndsRun ==
    (/\ demo = "amazon"
     /\ scene = 5
     /\ HasEvent("model_call", 5)
     /\ ~response.raises
     /\ IsDict(result)
     /\ Truthy(Get(result, "success"))
     /\ pc # "a5_report")
    => /\ run \in {"running", "complete"}
       /\ HasEvent("success_report", 5)
       /\ pointer = <<>>
       /\ \A i \in 1..Len(log), j \in 1..Len(log) :
             (log[i] = Event("model_call", 5) /\ i < j)
             => log[j].e \in {"success_report", "summary", "complete"}

\* C16: every call of analyze_screenshot that returns has appended exactly
\* one usage record, carrying the usage of its response, also when the
\* content was empty or did not parse: the ledger holds as many records as
\* calls have returned.
C16_OneRecordPerReturnedCall ==
    demo \in VisionDemos =>
        /\ Len(ledger) = calls - (IF calls > 0 /\ response.raises THEN 1 ELSE 0)
        /\ (calls > 0 /\ ~response.raises)
              => /\ ledger[Len(ledger)].prompt_tokens = response.usage.prompt_tokens
                 /\ ledger[Len(ledger)].completion_tokens = response.usage.completion_tokens

\* A call that returned its error result, on an empty content or on a text
\* that is not JSON, and is in the ledger.
C16_Witness ==
    /\ demo \in VisionDemos
    /\ calls > 1
    /\ ~response.raises
    /\ ~(response.content.present /\ response.content.valid)
    /\ IsMalformed(result)
    /\ Len(ledger) = calls

\* The records in the order perm gives them.
Reordered(led, perm) == [i \in 1..Len(led) |-> led[perm[i]]]

\* The sum of one field counted value by value: each token count times the
\* number of records that carry it.
CountedSum(led, field) ==
    LET RECURSIVE Weigh(_)
        Weigh(v) == IF v < 0 THEN 0
                    ELSE v * Cardinality({i \in DOMAIN led : led[i][field] = v}) + Weigh(v - 1)
    IN  Weigh(MaxTokens)

\* C17: after N calls the total of the ledger's summary is the elementwise
\* sum of the recorded pairs, and every order of appending the same N
\* records gives the same total.
C17_TotalIsOrderIndependentSum ==
    LET summary == get_summary(ledger)
    IN  /\ summary.total_prompt_tokens = CountedSum(ledger, "prompt_tokens")
        /\ summary.total_completion_tokens = CountedSum(ledger, "completion_tokens")
        /\ summary.total_tokens
              = CountedSum(ledger, "prompt_tokens") + CountedSum(ledger, "completion_tokens")
        /\ \A perm \in Permutations(1..Len(ledger)) :
              LET other == get_summary(Reordered(ledger, perm))
              IN  /\ other.total_prompt_tokens = summary.total_prompt_tokens
                  /\ other.total_completion_tokens = summary.total_completion_tokens
                  /\ other.total_tokens = summary.total_tokens

\* Three records, two of them of the same scene with different counts.
C17_Witness ==
    /\ pc = "ledger"
    /\ Len(ledger) = 3
    /\ ledger[1].scene = ledger[3].scene
    /\ ledger[1].prompt_tokens # ledger[3].prompt_tokens
    /\ ledger[2].scene # ledger[1].scene
    /\ get_summary(ledger).total_tokens > 2

\* Positions in the log of the events e.
EventsAt(e) == {i \in DOMAIN log : log[i].e = e}

\* C18: in every run that has ended, succeeded or failed, the usage summary
\* was written exactly once, after the last model call of the run.
C18_SummaryPersistedOnce ==
    pc \in {"halted", "done"} =>
        /\ Cardinality(EventsAt("summary")) = 1
        /\ \A i \in EventsAt("summary"), j \in EventsAt("model_call") : j < i

\* The positions of the scripts at their pointer clicks.
ClickPcs == {"a1_click", "a3_click", "a4_click", "v1_click", "v3_click"}

\* C19: in the vision scripts a decision whose x and y are numbers is
\* accepted and left unchanged: x and y are the numbers the model returned,
\* extracting and validating again gives the same x and y, and every
\* pointer action of the scene, of which there is at least one once the
\* script is past its click, is issued at exactly that (x, y).
C19_NumericDecisionClickedUnchanged ==
    (/\ demo \in VisionDemos
     /\ Validated
     /\ IsDict(result)
     /\ IsDict(result.coordinates)
     /\ IsNumber(result.coordinates.x)
     /\ IsNumber(result.coordinates.y))
    => LET ex == IF demo = "amazon" /\ scene = 1
                 THEN ExtractScene1(result) ELSE ExtractGuarded(result)
       IN  /\ x = result.coordinates.x
           /\ y = result.coordinates.y
           /\ ~ex.fault /\ ex.x = x /\ ex.y = y /\ ~Rejected(ex.x, ex.y)
           /\ primary[scene] \notin {"Failed", "Fault"}
           /\ \A i \in 1..Len(pointer) : pointer[i] = <<result.coordinates.x, result.coordinates.y>>
           /\ pc \notin ClickPcs => pointer # <<>>

\* Amazon Scene 3 after a click at the point the model named, with x # y.
C19_Witness ==
    /\ demo = "amazon"
    /\ scene = 3
    /\ pc \in {"a3_repeat", "a4_observe"}
    /\ IsNumber(result.coordinates.x)
    /\ IsNumber(result.coordinates.y)
    /\ result.coordinates.x # result.coordinates.y
    /\ pointer = << <<result.coordinates.x, result.coordinates.y>> >>

\* C20: in the SDK script a decision is passed to click_rect only if its
\* bbox holds numbers for all four of x, y, width and height; any other bbox
\* is rejected by the validation and never clicked.
C20_OnlyFullBoxesClicked ==
    demo = "gsdk" =>
        /\ pc \in {"g1_click", "g3_click"} => WellFormedBox(result.bbox)
        /\ \A i \in 1..Len(pointer) : \A k \in 1..4 : IsNumber(pointer[i][k])

\* The coordinates of a result can be clicked: an object whose x and y are
\* both set.
UsableCoordinates(res) ==
    /\ IsDict(res.coordinates)
    /\ ~IsNone(res.coordinates.x)
    /\ ~IsNone(res.coordinates.y)

\* C21: a decision returned by analyze_screenshot never carries both usable
\* coordinates and an error field.
C21_OneVariantOnly ==
    (demo \in VisionDemos /\ calls > 0 /\ ~response.raises /\ IsDict(result))
    => ~(result.error.t # "absent" /\ UsableCoordinates(result))

\* The place of a step within its scene.
StepRank(e) ==
    CASE e = "capture" -> 1
      [] e = "model_call" -> 2
      [] e = "click" -> 3
      [] e = "repeat" -> 4
      [] e = "selector_click" -> 5
      [] e = "selector_error" -> 6
      [] e \in {"success_report", "failed_report"} -> 7
      [] e = "summary" -> 8
      [] OTHER -> 9

\* C22: the steps of a run never overlap and keep their order.  No request is
\* outstanding between steps; the events of a scene all come before those of
\* the next scene; inside a scene the order is capture, model call, primary
\* click, repeat, selector click, report, each at most once (Scene 2 types,
\* captures and presses Enter); the model is always called directly after the
\* capture of its own scene; validation and the verification report stand
\* directly after the model call they read.
C22_StepsInOrder ==
    /\ requests = calls
    /\ \A i \in 1..Len(log) : \A j \in 1..Len(log) :
         i < j =>
            /\ log[i].scene <= log[j].scene
            /\ (log[i].scene = log[j].scene /\ log[i].scene # 2)
                  => StepRank(log[i].e) < StepRank(log[j].e)
    /\ \A j \in 1..Len(log) :
         log[j].e = "model_call" => (j > 1 /\ log[j - 1] = Event("capture", log[j].scene))
    /\ pc \in ValidatePcs \cup {"a5_report"} => LastEvent = Event("model_call", scene)

C22_Witness ==
    /\ demo = "amazon"
    /\ HasEvent("selector_click", 3)
    /\ HasEvent("model_call", 4)
    /\ pc = "a4_validate"

\* C23: the ledger is append-only and its totals never decrease: every call
\* leaves the records already appended where and as they were, and the
\* accumulated input, output and grand totals of the summary after the call
\* are at least what they were before it.
C23_AppendOnlyMonotonic ==
    [][LET before == get_summary(ledger)
           after == get_summary(ledger')
       IN  /\ Len(ledger') >= Len(ledger)
           /\ SubSeq(ledger', 1, Len(ledger)) = ledger
           /\ after.total_prompt_tokens >= before.total_prompt_tokens
           /\ after.total_completion_tokens >= before.total_completion_tokens
           /\ after.total_tokens >= before.total_tokens]_vars

\* Two calls for the same scene, the second with smaller counts than the first.
C23_Witness ==
    /\ pc = "ledger"
    /\ Len(ledger) = 2
    /\ ledger[1].scene = ledger[2].scene
    /\ ledger[1].prompt_tokens > ledger[2].prompt_tokens
    /\ ledger[1].completion_tokens > ledger[2].completion_tokens

\* C24: in Scene 3 of both vision scripts a recovery step is taken only while
\* the navigation is unconfirmed.  After a primary click that changed the URL
\* there is neither a repeat nor a selector click; the repeat is made only
\* after a primary click that left the URL unchanged; in the Amazon script the
\* selector click is made only after a repeat that left the URL unchanged as
\* well, and a repeat that changed the URL leads straight to Scene 4.
C24_RecoveryOnlyWhenNeeded ==
    demo \in VisionDemos =>
        /\ primary[3] = "Confirmed"
              => (~HasEvent("repeat", 3) /\ ~HasEvent("selector_click", 3))
        /\ HasEvent("repeat", 3) => primary[3] = "Unconfirmed"
        /\ HasEvent("selector_click", 3)
              => (demo = "amazon" /\ HasEvent("repeat", 3) /\ url_after = url_before)
        /\ (demo = "amazon" /\ LastEvent = Event("repeat", 3) /\ url_after # url_before)
              => pc = "a4_observe"

\* Amazon Scene 3 left through a repeat that changed the URL, no selector click.
C24_Witness ==
    /\ demo = "amazon"
    /\ pc = "a4_observe"
    /\ HasEvent("repeat", 3)
    /\ ~HasEvent("selector_click", 3)
    /\ url_after # url_before
    /\ final[3] = "Confirmed"

RepeatPcs == {"a3_repeat", "v3_repeat"}

\* C25: the repeat of Scene 3 is one more click at the primary click's (x, y),
\* made after the primary click's URL check found the URL unchanged and
\* without a new screenshot or model call; its outcome is judged by comparing
\* the URL read after it with the URL read before the primary click, which
\* the repeat leaves as it was; a scene never repeats twice.
C25_RepeatOnceSameTarget ==
    [][(pc \in RepeatPcs /\ pc' # pc)
        => /\ LastEvent = Event("click", 3)
           /\ primary[3] = "Unconfirmed"
           /\ Len(pointer) = 1
           /\ pointer' = <<pointer[1], pointer[1]>>
           /\ log' = Append(log, Event("repeat", 3))
           /\ calls' = calls /\ requests' = requests /\ ledger' = ledger
           /\ result' = result /\ x' = x /\ y' = y
           /\ url_before' = url_before
           /\ url_after' = url'
           /\ pc' \notin RepeatPcs
           /\ (url' # url_before)
                 => (final'[3] = "Confirmed" /\ pc' \in {"a4_observe", "v4_final"})
           /\ (url' = url_before)
                 => (final'[3] # "Confirmed" /\ pc' \in {"a3_fallback", "halted"})]_vars

\* The Google vision script after a repeat that changed the URL.
C25_Witness ==
    /\ demo = "gvision"
    /\ pc = "v4_final"
    /\ LastEvent = Event("repeat", 3)
    /\ Len(pointer) = 2
    /\ pointer[1] = pointer[2]
    /\ pointer[1][1] # pointer[1][2]
    /\ url_after # url_before

\* A decision that names no target: its coordinates key is missing.
MissingCoordinates == Decision(Absent, NonObject(Absent), NonObject(Absent), Absent, Absent)

\* The extraction the running script applies in its current scene.
ExtractionOf(res) ==
    IF demo = "amazon" /\ scene = 1 THEN ExtractScene1(res) ELSE ExtractGuarded(res)

\* C26: in every click scene of the vision scripts a response without content
\* (declined or empty) is handled as a decision whose coordinates are missing
\* is: the extraction gives the same x, y and exception status for both, and
\* once the scene's validation has run the attempt is Failed, no pointer
\* action was issued, and the run has not ended by an exception other than
\* the script's own.
C26_DeclinedHandledAsUnresolved ==
    (/\ demo \in VisionDemos
     /\ scene \in ClickScenes
     /\ HasEvent("model_call", scene)
     /\ ~response.raises
     /\ ~response.content.present)
    => /\ ExtractionOf(result) = ExtractionOf(MissingCoordinates)
       /\ pc \notin ValidatePcs
             => (primary[scene] = "Failed" /\ run # "fault" /\ pointer = <<>>)

\* C27: the Google vision script starts Scene 4 (final screenshot, SUCCESS
\* report) only with a URL, read after the primary click or after the one
\* repeat, that differs from the URL read before the primary click; when the
\* URL is equal after both, the run has halted in Scene 3 on the script's own
\* exception and nothing of Scene 4 has happened.
C27_Scene4OnlyAfterUrlChange ==
    demo = "gvision" =>
        /\ (scene = 4 \/ HasEvent("capture", 4) \/ HasEvent("success_report", 4)
               \/ pc \in {"v4_final", "v_summary", "done"})
              => (url_after # url_before /\ final[3] = "Confirmed")
        /\ (HasEvent("repeat", 3) /\ url_after = url_before)
              => /\ run = "failed"
                 /\ pc = "halted"
                 /\ halt_pc = "v3_repeat"
                 /\ scene = 3
                 /\ ~HasEvent("capture", 4)
                 /\ ~HasEvent("success_report", 4)

\* A complete run of the Google vision script whose Scene 3 needed the repeat.
C27_Witness ==
    /\ demo = "gvision"
    /\ pc = "done"
    /\ HasEvent("repeat", 3)
    /\ HasEvent("success_report", 4)
    /\ url_after # url_before

CountEvents(e, s) == Cardinality({i \in DOMAIN log : log[i] = Event(e, s)})

\* The scenes of the running script that have a locate or verify step.
ModelScenes == IF demo = "amazon" THEN {1, 3, 4, 5} ELSE {1, 3}

\* C29: the work of a scene is bounded.  A scene makes at most one model call
\* and at most three pointer actions on its target: one primary click, one
\* repeat, one selector click, at most two of them at model coordinates; only
\* the scenes with a locate or verify step call the model, every call of the
\* run is the one call of such a scene (one provider request per call of
\* analyze_screenshot), and so the calls of a run never outnumber these scenes.
C29_BoundedWorkPerScene ==
    /\ \A s \in Scenes :
          /\ CountEvents("model_call", s) <= (IF s \in ModelScenes THEN 1 ELSE 0)
          /\ CountEvents("click", s) <= 1
          /\ CountEvents("repeat", s) <= 1
          /\ CountEvents("selector_click", s) <= 1
    /\ Len(pointer) <= 2
    /\ calls = Cardinality(EventsAt("model_call"))
    /\ demo \in VisionDemos => requests = calls
    /\ calls <= Cardinality(ModelScenes)

\* A complete Amazon run: four model calls, and a Scene 3 that needed the
\* primary click, the repeat and the selector click.
C29_Witness ==
    /\ demo = "amazon"
    /\ pc = "done"
    /\ calls = 4
    /\ CountEvents("click", 3) + CountEvents("repeat", 3) + CountEvents("selector_click", 3) = 3

\* C30: in the SDK script, when the filtered element list of Scene 1 or of
\* Scene 3 is empty, the run has halted in that scene by the script's own
\* return: the scene has no model call and no pointer action, and the ledger
\* holds no record under that scene's name.
C30_EmptyListHaltsBeforeModel ==
    (/\ demo = "gsdk"
     /\ scene \in {1, 3}
     /\ HasEvent("capture", scene)
     /\ filtered_data.elements = <<>>)
    => /\ run = "failed"
       /\ pc = "halted"
       /\ halt_pc = (IF scene = 1 THEN "start" ELSE "g3_observe")
       /\ LastEvent = Event("capture", scene)
       /\ ~HasEvent("model_call", scene)
       /\ ~HasEvent("click", scene)
       /\ pointer = <<>>
       /\ calls = (IF scene = 1 THEN 0 ELSE 1)
       /\ \A i \in DOMAIN ledger :
             ledger[i].scene # (IF scene = 1 THEN "Scene 1: Find Search Box"
                                ELSE "Scene 3: Select Search Result")

\* Scene 3 of the SDK script with a snapshot whose elements were all filtered out.
C30_Witness ==
    /\ demo = "gsdk"
    /\ scene = 3
    /\ snapshot_data.elements # <<>>
    /\ filtered_data.elements = <<>>
    /\ pc = "halted"
    /\ run = "failed"
    /\ calls = 1

\* The positions of the elements of a list whose role is not excluded.
KeptAt(elements, excluded) == {i \in DOMAIN elements : elements[i].role \notin excluded}

\* out is the list of the elements of elements at the positions kept, in
\* their order: its k-th element is the one at the k-th smallest position.
IsKeptSublist(out, elements, excluded) ==
    LET kept == KeptAt(elements, excluded)
    IN  /\ Len(out) = Cardinality(kept)
        /\ \A i \in kept : out[Cardinality({j \in kept : j <= i})] = elements[i]

\* C31: filter_elements returns a snapshot whose elements are exactly the
\* input's elements whose role is not excluded, in their original order, and
\* whose other top-level fields are the input's; the input snapshot is left
\* as it was; filtering the result again with the same roles changes nothing.
C31_FilterKeepsOthersInOrder ==
    [][/\ (pc = "filter" /\ pc' = "filtered")
            => /\ IsKeptSublist(filtered_data'.elements, snapshot_data.elements, exclude_roles)
               /\ DOMAIN filtered_data' = DOMAIN snapshot_data
               /\ \A k \in DOMAIN snapshot_data \ {"elements"} :
                     filtered_data'[k] = snapshot_data[k]
               /\ snapshot_data' = snapshot_data
       /\ (pc = "filtered" /\ pc' = "refiltered")
            => /\ filtered_data' = filtered_data
               /\ snapshot_data' = snapshot_data]_vars

\* A snapshot of another page with an excluded element between two kept ones
\* of different roles, filtered twice.
C31_Witness ==
    /\ pc = "refiltered"
    /\ snapshot_data.url # 0
    /\ Len(snapshot_data.elements) = 3
    /\ Len(filtered_data.elements) = 2
    /\ snapshot_data.elements[2].role \in exclude_roles
    /\ snapshot_data.elements[1].role = "none"
    /\ snapshot_data.elements[3].role = "link"
    /\ filtered_data.elements[1] # filtered_data.elements[2]

\* The lower-cased text of an element (no text: the empty string) contains
\* none of the ad markers.
NoMarker(elem) ==
    LET text == IF elem.text.t = "str" THEN elem.text.s ELSE <<>>
    IN  \A ad_marker \in AdMarkers : ~Contains(ad_marker, Lower(text))

\* C32: the ad filter of Scene 3 of the SDK script never ends the run by an
\* exception, whatever the element list, elements with an absent or null
\* text included, and the list it leaves in filtered_data is the sub-list,
\* in order, of the role-filtered elements whose lower-cased text contains
\* no ad marker.
C32_AdFilterTotal ==
    (demo = "gsdk" /\ HasEvent("capture", 3))
    => /\ ~(run = "fault" /\ halt_pc = "g3_observe")
       /\ filtered_data.elements
             = SelectSeq(filter_elements(snapshot_data, exclude_roles).elements, NoMarker)

====
